---- MODULE Spec2Model ----
(***************************************************************************)
(* Model of pyxora's entity/physics composition layer (src/objects.py):    *)
(* PhysicsManager, Objects (the collection) and Object.  src/object.py is  *)
(* an earlier draft of the same classes that cannot be imported (it names  *)
(* pyxora.* without importing it); the model follows objects.py, except   *)
(* for the update that runs the scripts, which only object.py has.         *)
(*                                                                         *)
(* Python None is "None" for names and 0 for ids and physics handles.      *)
(* All coordinates and sizes are kept in half pixels (twice the Python     *)
(* value), so that the source's float division size/2 is the exact         *)
(* integer division Half(size).                                            *)
(***************************************************************************)
EXTENDS Integers, Sequences, FiniteSets, TLC

\* ------------------------------------------------------------- bounds
MaxBodies == 3
MaxScripts == 1
MaxStack == 2
MaxCoord == 42
MaxCounter == 3

\* the Object instances and the Objects collections user code holds
ObjIds == {1, 2}
Handles == 1..MaxBodies
Colls == {"A", "B"}
Scenes == {"S1", "S2"}
DTs == {1, 2}
\* caller-supplied constructor arguments, in half pixels
Positions == {<<40, 20>>}
RectSizes == {<<8, 12>>}
CircleSizes == {2}
MoveTargets == {<<42, 20>>}
MoveDeltas == {<<2, 0>>}
Gravities == {<<0, 18>>}
\* what the local variable self of a call frame can hold
FrameSelves == {"None", "other"} \cup Scenes

VARIABLES
    made,                \* the Object instances constructed so far
    obj,                 \* the fields of every Object
    built,               \* the Objects collections constructed so far
    coll,                \* the fields of every Objects collection
    body,                \* the pymunk bodies (with their one shape) alive
    scene_dt,            \* Scene.dt of every scene
    Objects_show_hitbox, \* the class attribute Objects.show_hitbox
    last,                \* the last operation called and how it ended
    calls,               \* the collaborator calls that operation made, in order
    issued               \* history: the adds of a collection since its last clear

vars == <<made, obj, built, coll, body, scene_dt, Objects_show_hitbox, last, calls, issued>>

\* ------------------------------------------------------------ helpers
Half(n) == n \div 2

Call(fn, who, arg) == [fn |-> fn, who |-> who, arg |-> arg]

\* the record of a call: the collection and the object it was made with,
\* how it ended, the object it returned (0 for None) and its other input
Op(name, c, o, outcome, ret) ==
    [op |-> name, c |-> c, o |-> o, outcome |-> outcome, ret |-> ret, stack |-> <<>>,
     arg |-> <<>>]

RECURSIVE SeqRemoveFirst(_, _)
\* list.remove: the list without the first element equal to x
SeqRemoveFirst(s, x) ==
    IF s = <<>> THEN <<>>
    ELSE IF Head(s) = x THEN Tail(s)
    ELSE <<Head(s)>> \o SeqRemoveFirst(Tail(s), x)

SeqRemoveAt(s, i) == SubSeq(s, 1, i - 1) \o SubSeq(s, i + 1, Len(s))

InSeq(s, x) == \E i \in 1..Len(s) : s[i] = x

\* engine.error(err): reports the error by raising it, so the caller does
\* not continue (raised = FALSE would be a report that returns)
engine_error(err) == [raised |-> TRUE, value |-> err]

Returned(v) == [raised |-> FALSE, value |-> v]

\* a new pymunk.Space(): no body, no shape, zero gravity
NewSpace == [bodies |-> {}, shapes |-> {}, gravity |-> <<0, 0>>]

\* PhysicsManager.__init__
PhysicsManager_init == [space |-> NewSpace]

NoPhysics == [mass |-> 0, friction |-> 0, elasticity |-> 0, collision_type |-> 0]

NoBody ==
    [alive |-> FALSE, position |-> <<0, 0>>, body_type |-> "None",
     kind |-> "None", dim |-> <<>>, props |-> NoPhysics]

NoObject ==
    [key |-> 0, Manager |-> "None", id |-> 0, rigidbody |-> 0, rigidshape |-> 0,
     image |-> <<0, 0>>, spawn |-> <<0, 0>>, size |-> <<>>,
     shape_type |-> 0, invisible |-> FALSE, scripts |-> <<>>,
     static |-> FALSE, physics |-> NoPhysics,
     pos |-> <<0, 0>>]    \* history: the pos the constructor was called with

NoCollection ==
    [Physics |-> PhysicsManager_init, data |-> <<>>, counter |-> 0,
     scene |-> "None", render |-> "None", show_hitbox |-> "unset"]

\* bodies that some Object or some space still refers to; the others are
\* garbage and their handle can be given out again
Referenced(os, cs) ==
    {os[o].rigidbody : o \in ObjIds} \cup {os[o].rigidshape : o \in ObjIds}
        \cup UNION {cs[c].Physics.space.bodies \cup cs[c].Physics.space.shapes : c \in Colls}

Collect(bs, os, cs) ==
    [h \in Handles |-> IF h \in Referenced(os, cs) THEN bs[h] ELSE NoBody]

FreeHandles == {h \in Handles : ~body[h].alive}

\* -------------------------------------------------------------- Init
Init ==
    /\ made = {}
    /\ obj = [o \in ObjIds |-> [NoObject EXCEPT !.key = o]]
    /\ built = {}
    /\ coll = [c \in Colls |-> NoCollection]
    /\ body = [h \in Handles |-> NoBody]
    /\ scene_dt \in [Scenes -> DTs]
    /\ Objects_show_hitbox \in BOOLEAN
    /\ last = Op("start", "None", 0, "ok", 0)
    /\ calls = <<>>
    /\ issued = [c \in Colls |-> <<>>]

\* ------------------------------------------------- scene resolution
RECURSIVE outermost_scene(_)
\* the search run from the outermost frame inwards
outermost_scene(frames) ==
    IF frames = <<>> THEN "None"
    ELSE IF frames[Len(frames)] \in Scenes THEN frames[Len(frames)]
    ELSE outermost_scene(SubSeq(frames, 1, Len(frames) - 1))

RECURSIVE first_scene(_)
\* the loop of Objects.__get_scene over inspect.stack(), innermost frame
\* first: the self of the first frame whose self is a Scene
first_scene(frames) ==
    IF frames = <<>> THEN "None"
    ELSE IF Head(frames) \in Scenes THEN Head(frames)
    ELSE first_scene(Tail(frames))

\* Objects.__get_scene called from Objects.__init__ under the caller frames
\* `stack`: inspect.stack() starts with the frame of __get_scene itself (a
\* staticmethod, no self) and the frame of __init__ (self is the collection)
get_scene(stack) ==
    LET found == first_scene(<<"None", "other">> \o stack)
    IN  IF found # "None" THEN Returned(found)
        ELSE LET e == engine_error("RuntimeError")
             IN  IF e.raised THEN e ELSE Returned("None")

camera(scene) == IF scene = "S1" THEN "camera1" ELSE "camera2"

Stacks == UNION {[1..n -> FrameSelves] : n \in 0..MaxStack}

\* Objects.__init__(render)
Objects_init(c, stack, render) ==
    /\ c \notin built
    /\ LET scene == get_scene(stack)
           fresh == [NoCollection EXCEPT !.Physics = PhysicsManager_init]
           outcome == IF scene.raised THEN scene.value
                      \* scene.camera of None
                      ELSE IF scene.value = "None" /\ render = "None" THEN "AttributeError"
                      ELSE "ok"
       IN  /\ last' = [Op("Objects", c, 0, outcome, 0) EXCEPT !.stack = stack]
           /\ built' = IF outcome = "ok" THEN built \cup {c} ELSE built
           /\ coll' = IF outcome # "ok" THEN coll
                      ELSE [coll EXCEPT ![c] =
                             [fresh EXCEPT !.scene = scene.value,
                                           !.render = IF render # "None" THEN render
                                                      ELSE camera(scene.value)]]
    /\ calls' = <<>>
    /\ UNCHANGED <<made, obj, body, scene_dt, Objects_show_hitbox, issued>>

\* ------------------------------------------------------------ Object
\* Object.add_physics(mass, friction, elasticity, static) on the fields `f`
add_physics(f, mass, friction, elasticity, static) ==
    [f EXCEPT !.physics = [mass |-> mass, friction |-> friction,
                           elasticity |-> elasticity,
                           collision_type |-> f.shape_type],
              !.static = static]

\* the spawn anchor Object.__init__ computes from the caller's pos
spawn_of(pos, size, shape_type) ==
    IF shape_type = 2 THEN <<pos[1] - size[1], pos[2] - size[1]>>
    ELSE <<pos[1] - Half(size[1]), pos[2] - Half(size[2])>>

\* Object.__init__(pos, size, image, shape_type); a circle's scalar size
\* s is the 1-tuple <<s>>
Object_init(o, pos, size, shape_type) ==
    /\ o \notin made
    /\ made' = made \cup {o}
    /\ LET spawn == spawn_of(pos, size, shape_type)
           f == [NoObject EXCEPT !.key = o, !.image = spawn, !.spawn = spawn, !.size = size,
                                 !.shape_type = shape_type, !.pos = pos]
       IN  obj' = [obj EXCEPT ![o] = add_physics(f, 1, 0, 0, TRUE)]
    /\ last' = Op("Object", "None", o, "ok", 0)
    /\ calls' = <<>>
    /\ UNCHANGED <<built, coll, body, scene_dt, Objects_show_hitbox, issued>>

\* Object.add_physics called by user code (default mass, friction, elasticity)
Object_add_physics(o, static) ==
    /\ o \in made
    /\ obj' = [obj EXCEPT ![o] = add_physics(obj[o], 1, 0, 0, static)]
    /\ last' = Op("add_physics", "None", o, "ok", 0)
    /\ calls' = <<>>
    /\ UNCHANGED <<made, built, coll, body, scene_dt, Objects_show_hitbox, issued>>

\* user code attaching a script through the list Object.scripts returns
scripts_append(o) ==
    /\ o \in made
    /\ Len(obj[o].scripts) < MaxScripts
    /\ obj' = [obj EXCEPT ![o].scripts = Append(@, Len(@) + 1)]
    /\ last' = Op("scripts.append", "None", o, "ok", 0)
    /\ calls' = <<>>
    /\ UNCHANGED <<made, built, coll, body, scene_dt, Objects_show_hitbox, issued>>

\* ---------------------------------------------------- PhysicsManager
\* the handle pymunk.Body() / the shape constructor hands out
new_handle == CHOOSE h \in FreeHandles : \A k \in FreeHandles : h <= k

\* what a registration leaves behind: the object's fields, the space and
\* the bodies, or the error raised
Registered(f, space, bs) == [raised |-> FALSE, value |-> "None", obj |-> f, space |-> space, body |-> bs]

Failed(e, f, space, bs) == [raised |-> TRUE, value |-> e.value, obj |-> f, space |-> space, body |-> bs]

\* add_rect forgetting to hand the shape back to the object
add_rect_body_only(f, space, static, rigidshape_kwargs, bs) ==
    LET h == new_handle
        rigidbody == [alive |-> TRUE,
                      position |-> <<f.spawn[1] + Half(f.size[1]),
                                     f.spawn[2] + Half(f.size[2])>>,
                      body_type |-> IF static THEN "STATIC" ELSE "DYNAMIC",
                      kind |-> "box", dim |-> f.size,
                      props |-> rigidshape_kwargs]
    IN  Registered([f EXCEPT !.rigidbody = h],
                   [space EXCEPT !.bodies = @ \cup {h}, !.shapes = @ \cup {h}],
                   [bs EXCEPT ![h] = rigidbody])

\* PhysicsManager.add_rect(Object, space, static, **rigidshape_kwargs)
add_rect(f, space, static, rigidshape_kwargs, bs) ==
    LET h == new_handle
        body_type == IF static THEN "STATIC" ELSE "DYNAMIC"
        rigidbody == [alive |-> TRUE,
                      position |-> <<f.spawn[1] + Half(f.size[1]),
                                     f.spawn[2] + Half(f.size[2])>>,
                      body_type |-> body_type,
                      kind |-> "box", dim |-> f.size,
                      props |-> rigidshape_kwargs]
    IN  Registered([f EXCEPT !.rigidbody = h, !.rigidshape = h],
                   [space EXCEPT !.bodies = @ \cup {h}, !.shapes = @ \cup {h}],
                   [bs EXCEPT ![h] = rigidbody])

\* PhysicsManager.add_circle(Object, space, static, **rigidshape_kwargs)
add_circle(f, space, static, rigidshape_kwargs, bs) ==
    LET h == new_handle
        body_type == IF static THEN "STATIC" ELSE "DYNAMIC"
        rigidbody == [alive |-> TRUE,
                      position |-> f.spawn,
                      body_type |-> body_type,
                      kind |-> "circle", dim |-> f.size,
                      props |-> rigidshape_kwargs]
    IN  Registered([f EXCEPT !.rigidbody = h, !.rigidshape = h],
                   [space EXCEPT !.bodies = @ \cup {h}, !.shapes = @ \cup {h}],
                   [bs EXCEPT ![h] = rigidbody])

\* add ignoring a shape kind it does not know
PhysicsManager_add_silent(pm, f, bs) ==
    IF f.shape_type = 1 THEN add_rect(f, pm.space, f.static, f.physics, bs)
    ELSE IF f.shape_type = 2 THEN add_circle(f, pm.space, f.static, f.physics, bs)
    ELSE Registered(f, pm.space, bs)

\* PhysicsManager.add(Object) on the manager `pm`
PhysicsManager_add(pm, f, bs) ==
    LET space == pm.space
        physics == f.physics
        static == f.static
        shape_type == f.shape_type
    IN  IF shape_type = 1 THEN add_rect(f, space, static, physics, bs)
        ELSE IF shape_type = 2 THEN add_circle(f, space, static, physics, bs)
        ELSE LET e == engine_error("RuntimeError")
             IN  IF e.raised THEN Failed(e, f, space, bs)
                 ELSE Registered(f, space, bs)

\* PhysicsManager.update(step): pymunk's space.step(step); the solver is
\* outside this model and only the call is recorded
PhysicsManager_update(pm, step) == <<Call("space.step", 0, <<step, 0>>)>>

\* ----------------------------------------------------------- Objects
\* Objects.total
total(col) == col.counter

\* add appending the object before its physics registration
add_appending_first(c, col, f, bs) ==
    LET counter == col.counter + 1
        f1 == [f EXCEPT !.id = counter, !.Manager = c]
        r == PhysicsManager_add(col.Physics, f1, bs)
    IN  [raised |-> r.raised, value |-> r.value, obj |-> r.obj, body |-> r.body,
         coll |-> [col EXCEPT !.counter = counter, !.Physics.space = r.space,
                              !.data = Append(@, f.key)]]

\* Objects.add(Object) on the collection c with fields `col`
add(c, col, f, bs) ==
    LET counter == col.counter + 1
        f1 == [f EXCEPT !.id = counter, !.Manager = c]
        r == PhysicsManager_add(col.Physics, f1, bs)
    IN  IF r.raised
        THEN [raised |-> TRUE, value |-> r.value, obj |-> r.obj, body |-> r.body,
              coll |-> [col EXCEPT !.counter = counter, !.Physics.space = r.space]]
        ELSE [raised |-> FALSE, value |-> "None", obj |-> r.obj, body |-> r.body,
              coll |-> [col EXCEPT !.counter = counter, !.Physics.space = r.space,
                                   !.data = Append(@, f.key)]]

Objects_add(c, o) ==
    /\ c \in built /\ o \in made
    /\ coll[c].counter < MaxCounter
    /\ obj[o].shape_type \in {1, 2} => FreeHandles # {}
    /\ LET r == add(c, coll[c], obj[o], body)
           os == [obj EXCEPT ![o] = r.obj]
           cs == [coll EXCEPT ![c] = r.coll]
       IN  /\ obj' = os
           /\ coll' = cs
           /\ body' = Collect(r.body, os, cs)
           /\ last' = Op("add", c, o, IF r.raised THEN r.value ELSE "ok", 0)
           /\ issued' = [issued EXCEPT ![c] = Append(@, [o |-> o, id |-> r.obj.id])]
    /\ calls' = <<>>
    /\ UNCHANGED <<made, built, scene_dt, Objects_show_hitbox>>

\* remove giving the id of the removed object back to the counter
remove_counting_down(col, o) ==
    IF InSeq(col.data, o)
    THEN [raised |-> FALSE, value |-> 0,
          coll |-> [col EXCEPT !.data = SeqRemoveFirst(@, o), !.counter = @ - 1]]
    ELSE [raised |-> TRUE, value |-> "ValueError", coll |-> col]

\* remove that also discards the physics of the collection
remove_resetting_physics(col, o) ==
    IF InSeq(col.data, o)
    THEN [raised |-> FALSE, value |-> 0,
          coll |-> [col EXCEPT !.data = SeqRemoveFirst(@, o), !.Physics = PhysicsManager_init]]
    ELSE [raised |-> TRUE, value |-> "ValueError", coll |-> col]

\* Objects.remove(Object): list.remove, whose result (None, written 0) is
\* returned
remove(col, o) ==
    IF InSeq(col.data, o)
    THEN [raised |-> FALSE, value |-> 0, coll |-> [col EXCEPT !.data = SeqRemoveFirst(@, o)]]
    ELSE [raised |-> TRUE, value |-> "ValueError", coll |-> col]

Objects_remove(c, o) ==
    /\ c \in built /\ o \in made
    /\ LET r == remove(coll[c], o)
       IN  /\ coll' = [coll EXCEPT ![c] = r.coll]
           /\ last' = Op("remove", c, o, IF r.raised THEN r.value ELSE "ok",
                          IF r.raised THEN 0 ELSE r.value)
    /\ calls' = <<>>
    /\ UNCHANGED <<made, obj, built, body, scene_dt, Objects_show_hitbox, issued>>

\* pop that also discards the physics of the collection
pop_resetting_physics(col, index) ==
    LET n == Len(col.data)
        i == IF index < 0 THEN index + n + 1 ELSE index + 1
    IN  IF i \in 1..n
        THEN [raised |-> FALSE, value |-> col.data[i],
              coll |-> [col EXCEPT !.data = SeqRemoveAt(@, i), !.Physics = PhysicsManager_init]]
        ELSE [raised |-> TRUE, value |-> 0, coll |-> col]

\* Objects.pop(index): list.pop, a negative index counting from the end
pop(col, index) ==
    LET n == Len(col.data)
        i == IF index < 0 THEN index + n + 1 ELSE index + 1
    IN  IF i \in 1..n
        THEN [raised |-> FALSE, value |-> col.data[i], coll |-> [col EXCEPT !.data = SeqRemoveAt(@, i)]]
        ELSE [raised |-> TRUE, value |-> 0, coll |-> col]

Objects_pop(c, index) ==
    /\ c \in built
    /\ LET r == pop(coll[c], index)
       IN  /\ coll' = [coll EXCEPT ![c] = r.coll]
           /\ last' = IF r.raised THEN [Op("pop", c, 0, "IndexError", 0) EXCEPT !.arg = <<index>>]
                      ELSE [Op("pop", c, 0, "ok", r.value) EXCEPT !.arg = <<index>>]
    /\ calls' = <<>>
    /\ UNCHANGED <<made, obj, built, body, scene_dt, Objects_show_hitbox, issued>>

\* clear leaving the id counter where it was
clear_keeping_counter(col) ==
    [col EXCEPT !.Physics = PhysicsManager_init, !.data = <<>>]

\* clear emptying the space it has instead of replacing the manager, so
\* that the gravity set on the space stays
clear_keeping_gravity(col) ==
    [col EXCEPT !.Physics.space.bodies = {}, !.Physics.space.shapes = {},
                !.counter = 0, !.data = <<>>]

\* Objects.clear()
clear(col) ==
    [col EXCEPT !.Physics = PhysicsManager_init, !.counter = 0, !.data = <<>>]

Objects_clear(c) ==
    /\ c \in built
    /\ LET cs == [coll EXCEPT ![c] = clear(coll[c])]
       IN  /\ coll' = cs
           /\ body' = Collect(body, obj, cs)
    /\ last' = Op("clear", c, 0, "ok", 0)
    /\ issued' = [issued EXCEPT ![c] = <<>>]
    /\ calls' = <<>>
    /\ UNCHANGED <<made, obj, built, scene_dt, Objects_show_hitbox>>

\* Objects.set_gravity(gravity)
Objects_set_gravity(c, gravity) ==
    /\ c \in built
    /\ coll' = [coll EXCEPT ![c].Physics.space.gravity = gravity]
    /\ last' = Op("set_gravity", c, 0, "ok", 0)
    /\ calls' = <<>>
    /\ UNCHANGED <<made, obj, built, body, scene_dt, Objects_show_hitbox, issued>>

\* reading self.show_hitbox: the instance attribute when toggle_hitbox has
\* set one, the class attribute otherwise
self_show_hitbox(col) ==
    IF col.show_hitbox = "unset" THEN Objects_show_hitbox ELSE col.show_hitbox = "True"

\* Objects.toggle_hitbox(): assigns the instance attribute
toggle_hitbox(col) ==
    [col EXCEPT !.show_hitbox = IF ~self_show_hitbox(col) THEN "True" ELSE "False"]

Objects_toggle_hitbox(c) ==
    /\ c \in built
    /\ coll' = [coll EXCEPT ![c] = toggle_hitbox(coll[c])]
    /\ last' = Op("toggle_hitbox", c, 0, "ok", 0)
    /\ calls' = <<>>
    /\ UNCHANGED <<made, obj, built, body, scene_dt, Objects_show_hitbox, issued>>

\* ------------------------------------------------- the per-frame pass
\* position without the anchor correction of a rectangle
position_uncorrected(f, bs) == bs[f.rigidbody].position

\* Object.position: the body's position in the object's own convention
position(f, bs) ==
    LET pos == bs[f.rigidbody].position
    IN  IF f.shape_type = 1 THEN <<pos[1] - Half(f.size[1]), pos[2] - Half(f.size[2])>>
        ELSE pos

\* Object.update(): the image moved at the body's position, then by the
\* anchor correction of the shape kind
update(f, bs) ==
    LET at == bs[f.rigidbody].position
        image == IF f.shape_type = 1 THEN <<at[1] - Half(f.size[1]), at[2] - Half(f.size[2])>>
                 ELSE IF f.shape_type = 2 THEN <<at[1] - f.size[1], at[2] - f.size[1]>>
                 ELSE at
    IN  [obj |-> [f EXCEPT !.image = image],
         calls |-> <<Call("image.move_at", f.key, at)>> \o
                   (IF f.shape_type \in {1, 2} THEN <<Call("image.move", f.key, image)>> ELSE <<>>)]

RECURSIVE update_all(_, _, _)
\* the loop of Objects.update over the live sequence
update_all(data, os, bs) ==
    IF data = <<>> THEN [obj |-> os, calls |-> <<>>]
    ELSE LET r == update(os[Head(data)], bs)
             rest == update_all(Tail(data), [os EXCEPT ![Head(data)] = r.obj], bs)
         IN  [obj |-> rest.obj, calls |-> r.calls \o rest.calls]

\* update stepping the physics after the objects' own updates
update_pass_step_last(col, dt, os, bs) ==
    LET stepped == PhysicsManager_update(col.Physics, dt)
        r == update_all(col.data, os, bs)
    IN  [obj |-> r.obj, calls |-> r.calls \o stepped]

\* Objects.update() with the scene's dt: the physics step, then the loop
update_pass(col, dt, os, bs) ==
    LET stepped == PhysicsManager_update(col.Physics, dt)
        r == update_all(col.data, os, bs)
    IN  [obj |-> r.obj, calls |-> stepped \o r.calls]

Objects_update(c) ==
    /\ c \in built
    /\ LET dt == scene_dt[coll[c].scene]
           r == update_pass(coll[c], dt, obj, body)
       IN  /\ obj' = r.obj
           /\ calls' = r.calls
    /\ last' = Op("update", c, 0, "ok", 0)
    /\ UNCHANGED <<made, built, coll, body, scene_dt, Objects_show_hitbox, issued>>

\* draw with the invisible flag hiding the image but not the hitbox outline
draw_outlining_invisible(f, render, bs) ==
    (IF f.invisible THEN <<>> ELSE <<Call("draw_image", f.key, f.image)>>) \o
    (IF Objects_show_hitbox THEN <<Call("draw_shape", f.key, position(f, bs))>> ELSE <<>>)

\* Object.draw(render)
draw(f, render, bs) ==
    IF f.invisible THEN <<>>
    ELSE <<Call("draw_image", f.key, f.image)>> \o
         (IF Objects_show_hitbox THEN <<Call("draw_shape", f.key, position(f, bs))>> ELSE <<>>)

RECURSIVE draw_all_newest_first(_, _, _, _)
\* the loop of Objects.draw walking the live sequence from its end
draw_all_newest_first(data, render, os, bs) ==
    IF data = <<>> THEN <<>>
    ELSE draw_all_newest_first(Tail(data), render, os, bs) \o draw(os[Head(data)], render, bs)

RECURSIVE draw_all(_, _, _, _)
\* the loop of Objects.draw over the live sequence
draw_all(data, render, os, bs) ==
    IF data = <<>> THEN <<>>
    ELSE draw(os[Head(data)], render, bs) \o draw_all(Tail(data), render, os, bs)

\* Objects.draw()
Objects_draw(c) ==
    /\ c \in built
    /\ calls' = draw_all(coll[c].data, coll[c].render, obj, body)
    /\ last' = Op("draw", c, 0, "ok", 0)
    /\ UNCHANGED <<made, obj, built, coll, body, scene_dt, Objects_show_hitbox, issued>>

\* the frame clock of a scene setting Scene.dt
Scene_tick(s, dt) ==
    /\ scene_dt[s] # dt
    /\ scene_dt' = [scene_dt EXCEPT ![s] = dt]
    /\ last' = Op("tick", "None", 0, "ok", 0)
    /\ calls' = <<>>
    /\ UNCHANGED <<made, obj, built, coll, body, Objects_show_hitbox, issued>>

\* ------------------------------------------------------------- moving
\* Object.move_at(new_pos) of a registered object
move_at(f, new_pos, bs) ==
    [body |-> [bs EXCEPT ![f.rigidbody].position = new_pos],
     calls |-> <<Call("reindex_shapes_for_body", f.key, <<f.rigidbody, 0>>)>> \o
               (IF f.static THEN <<Call("reindex_static", f.key, <<0, 0>>)>> ELSE <<>>)]

InBox(p) == p[1] \in 0..MaxCoord /\ p[2] \in 0..MaxCoord

Object_move_at(o, new_pos) ==
    /\ o \in made
    /\ IF obj[o].rigidbody = 0
       THEN \* None has no attribute position
            /\ last' = Op("move_at", "None", o, "AttributeError", 0)
            /\ calls' = <<>>
            /\ UNCHANGED body
       ELSE LET r == move_at(obj[o], new_pos, body)
            IN  /\ body' = r.body
                /\ calls' = r.calls
                /\ last' = [Op("move_at", "None", o, "ok", 0) EXCEPT !.arg = new_pos]
    /\ UNCHANGED <<made, obj, built, coll, scene_dt, Objects_show_hitbox, issued>>

\* Object.move(new_pos): move_at the body's position plus the delta
Object_move(o, delta) ==
    /\ o \in made
    /\ IF obj[o].rigidbody = 0
       THEN /\ last' = Op("move", "None", o, "AttributeError", 0)
            /\ calls' = <<>>
            /\ UNCHANGED body
       ELSE LET pos == body[obj[o].rigidbody].position
                r == move_at(obj[o], <<pos[1] + delta[1], pos[2] + delta[2]>>, body)
            IN  /\ InBox(<<pos[1] + delta[1], pos[2] + delta[2]>>)
                /\ body' = r.body
                /\ calls' = r.calls
                /\ last' = [Op("move", "None", o, "ok", 0) EXCEPT !.arg = delta]
    /\ UNCHANGED <<made, obj, built, coll, scene_dt, Objects_show_hitbox, issued>>

\* ------------------------------------------------- the invisible flag
\* Object.invisible is a read-only property of the private field
\* __invisible, which Object.__init__ sets to False and no method writes;
\* the flag changes only by a write to that field from outside the class
Object_set_invisible(o, flag) ==
    /\ o \in made
    /\ obj[o].invisible # flag
    /\ obj' = [obj EXCEPT ![o].invisible = flag]
    /\ last' = Op("invisible=", "None", o, "ok", 0)
    /\ calls' = <<>>
    /\ UNCHANGED <<made, built, coll, body, scene_dt, Objects_show_hitbox, issued>>

\* ------------------------------------- the update of src/object.py
\* Object.update of objects.py never runs the scripts; the draft module
\* object.py does, inside the same loop over the live list.  What a script
\* does in its update hook is user code: ScriptKinds are three such hooks.
ScriptKinds == {"Idle", "RemoveSelf", "PopFirst"}

\* Object.add_script(script) of object.py: the script is constructed for
\* the object and appended to its scripts
add_script(o, script) ==
    /\ o \in made
    /\ Len(obj[o].scripts) < MaxScripts
    /\ obj' = [obj EXCEPT ![o].scripts = Append(@, script)]
    /\ last' = Op("add_script", "None", o, "ok", 0)
    /\ calls' = <<>>
    /\ UNCHANGED <<made, built, coll, body, scene_dt, Objects_show_hitbox, issued>>

\* script.update(obj, dt) of a user script: RemoveSelf takes its object out
\* of the collection with Objects.remove, PopFirst calls Objects.pop(0) on
\* a collection that is not empty, Idle leaves the collection alone
script_update(script, o, col) ==
    IF script = "RemoveSelf" /\ InSeq(col.data, o) THEN remove(col, o).coll
    ELSE IF script = "PopFirst" /\ col.data # <<>> THEN pop(col, 0).coll
    ELSE col

RECURSIVE run_scripts(_, _, _, _)
\* the loop of Object.update of object.py over self.scripts
run_scripts(scripts, o, dt, col) ==
    IF scripts = <<>> THEN [coll |-> col, calls |-> <<>>]
    ELSE LET rest == run_scripts(Tail(scripts), o, dt, script_update(Head(scripts), o, col))
         IN  [coll |-> rest.coll,
              calls |-> <<Call("script.update", o, <<Head(scripts), dt>>)>> \o rest.calls]

\* Object.update(dt) of object.py: the scripts, then the image resynced as
\* in objects.py
Object_update_scripts(f, dt, col, bs) ==
    LET s == run_scripts(f.scripts, f.key, dt, col)
        r == update(f, bs)
    IN  [coll |-> s.coll, obj |-> r.obj,
         calls |-> <<Call("Object.update", f.key, <<dt, 0>>)>> \o s.calls \o r.calls]

RECURSIVE update_loop(_, _, _, _, _)
\* for obj in self: obj.update(dt) -- the list iterator holds an index i
\* into the live list and stops when i is past its current end
update_loop(i, dt, col, os, bs) ==
    IF i > Len(col.data) THEN [coll |-> col, obj |-> os, calls |-> <<>>]
    ELSE LET o == col.data[i]
             r == Object_update_scripts(os[o], dt, col, bs)
             rest == update_loop(i + 1, dt, r.coll, [os EXCEPT ![o] = r.obj], bs)
         IN  [coll |-> rest.coll, obj |-> rest.obj, calls |-> r.calls \o rest.calls]

\* Objects.update() of object.py
Objects_update_scripts(c) ==
    /\ c \in built
    /\ LET dt == scene_dt[coll[c].scene]
           r == update_loop(1, dt, coll[c], obj, body)
       IN  /\ coll' = [coll EXCEPT ![c] = r.coll]
           /\ obj' = r.obj
           /\ calls' = PhysicsManager_update(coll[c].Physics, dt) \o r.calls
    /\ last' = [Op("update", c, 0, "ok", 0) EXCEPT !.arg = coll[c].data]
    /\ UNCHANGED <<made, built, body, scene_dt, Objects_show_hitbox, issued>>

\* ---------------------------------------------------- specifications
Renders == {"None", "custom"}
ShapeTypes == {1, 2, 3}
SizesOf(shape_type) == IF shape_type = 2 THEN {<<s>> : s \in CircleSizes} ELSE RectSizes

\* The object lifecycle of one collection, built inside scene S1 with the
\* default render: every operation that registers or removes objects.
Next ==
    \/ Objects_init("A", <<"S1">>, "None")
    \/ \E o \in ObjIds, pos \in Positions, st \in ShapeTypes :
          \E size \in SizesOf(st) : Object_init(o, pos, size, st)
    \/ \E o \in ObjIds : Objects_add("A", o)
    \/ \E o \in ObjIds : Objects_remove("A", o)
    \/ \E index \in -1..1 : Objects_pop("A", index)
    \/ Objects_clear("A")
    \/ Objects_update("A")

LifecycleInit ==
    /\ Init
    /\ ~Objects_show_hitbox
    /\ scene_dt = [s \in Scenes |-> 1]

Spec == LifecycleInit /\ [][Next]_vars

\* One object through every operation that can touch its physics handles
\* or its body: registration, removal, the frame update and the moves.
MoveNext ==
    \/ Objects_init("A", <<"S1">>, "None")
    \/ \E pos \in Positions, st \in ShapeTypes :
          \E size \in SizesOf(st) : Object_init(1, pos, size, st)
    \/ Objects_add("A", 1)
    \/ Objects_remove("A", 1)
    \/ \E index \in -1..1 : Objects_pop("A", index)
    \/ Objects_clear("A")
    \/ Objects_update("A")
    \/ \E p \in MoveTargets : Object_move_at(1, p)
    \/ \E d \in MoveDeltas : Object_move(1, d)

MoveSpec == LifecycleInit /\ [][MoveNext]_vars

\* Two collections sharing the objects user code holds.
ManagerNext ==
    \/ \E c \in Colls : Objects_init(c, <<"S1">>, "None")
    \/ \E o \in ObjIds, pos \in Positions, size \in RectSizes : Object_init(o, pos, size, 1)
    \/ \E c \in Colls, o \in ObjIds : Objects_add(c, o)
    \/ \E c \in Colls, o \in ObjIds : Objects_remove(c, o)
    \/ \E c \in Colls : Objects_pop(c, 0)
    \/ \E c \in Colls : Objects_clear(c)

ManagerSpec == LifecycleInit /\ [][ManagerNext]_vars

\* The per-frame pass of one collection: scripts, the frame clock, the
\* hitbox flag, update and draw.
FrameNext ==
    \/ \E stack \in {<<"S1">>, <<"S2">>} : Objects_init("A", stack, "None")
    \/ \E o \in ObjIds, pos \in Positions, st \in {1, 2} :
          \E size \in SizesOf(st) : Object_init(o, pos, size, st)
    \/ \E o \in ObjIds : scripts_append(o)
    \/ \E o \in ObjIds : Objects_add("A", o)
    \/ Objects_toggle_hitbox("A")
    \/ Objects_update("A")
    \/ Objects_draw("A")
    \/ \E s \in Scenes, dt \in DTs : Scene_tick(s, dt)

FrameSpec == Init /\ [][FrameNext]_vars

\* Building collections under every call stack, and what can be done with
\* a collection that holds no object.
SceneNext ==
    \/ \E c \in Colls, stack \in Stacks, render \in Renders : Objects_init(c, stack, render)
    \/ \E c \in Colls, g \in Gravities : Objects_set_gravity(c, g)
    \/ \E c \in Colls : Objects_clear(c)

SceneSpec == Init /\ [][SceneNext]_vars

\* Drawing one collection while objects come and go, with the hitbox
\* outlines on or off and objects made invisible.
DrawInit == Init /\ scene_dt = [s \in Scenes |-> 1]

DrawNext ==
    \/ Objects_init("A", <<"S1">>, "None")
    \/ \E o \in ObjIds, pos \in Positions, st \in {1, 2} :
          \E size \in SizesOf(st) : Object_init(o, pos, size, st)
    \/ \E o \in ObjIds, flag \in BOOLEAN : Object_set_invisible(o, flag)
    \/ \E o \in ObjIds : Objects_add("A", o)
    \/ \E o \in ObjIds : Objects_remove("A", o)
    \/ \E index \in {-1, 0} : Objects_pop("A", index)
    \/ Objects_draw("A")

DrawSpec == DrawInit /\ [][DrawNext]_vars

\* The physics properties of one object of collection "A": set before and
\* after the object is registered, with the object moved and the
\* collection cleared.
PhysicsNext ==
    \/ Objects_init("A", <<"S1">>, "None")
    \/ \E pos \in Positions, st \in {1, 2} :
          \E size \in SizesOf(st) : Object_init(1, pos, size, st)
    \/ \E static \in BOOLEAN : Object_add_physics(1, static)
    \/ Objects_add("A", 1)
    \/ \E p \in MoveTargets : Object_move_at(1, p)
    \/ \E d \in MoveDeltas : Object_move(1, d)
    \/ Objects_clear("A")

PhysicsSpec == LifecycleInit /\ [][PhysicsNext]_vars

\* Every operation of the public API on one collection and one object,
\* to tell which of them write the physics space and the live sequence.
EffectNext ==
    \/ Objects_init("A", <<"S1">>, "None")
    \/ \E pos \in Positions, st \in {1, 2} :
          \E size \in SizesOf(st) : Object_init(1, pos, size, st)
    \/ Objects_add("A", 1)
    \/ Objects_remove("A", 1)
    \/ Objects_pop("A", 0)
    \/ Objects_clear("A")
    \/ \E g \in Gravities : Objects_set_gravity("A", g)
    \/ Objects_toggle_hitbox("A")
    \/ Objects_update("A")
    \/ Objects_draw("A")
    \/ \E p \in MoveTargets : Object_move_at(1, p)
    \/ \E d \in MoveDeltas : Object_move(1, d)

EffectSpec == LifecycleInit /\ [][EffectNext]_vars

\* The update of object.py on one collection of rectangles, each object
\* in the live sequence at most once, with scripts that remove objects
\* while the update runs.
ScriptNext ==
    \/ Objects_init("A", <<"S1">>, "None")
    \/ \E o \in ObjIds, pos \in Positions, size \in RectSizes : Object_init(o, pos, size, 1)
    \/ \E o \in ObjIds, script \in ScriptKinds : add_script(o, script)
    \/ \E o \in ObjIds : ~InSeq(coll["A"].data, o) /\ Objects_add("A", o)
    \/ Objects_update_scripts("A")

ScriptSpec == LifecycleInit /\ [][ScriptNext]_vars

\* ============================================================ claims
CallsOf(fn) == {i \in 1..Len(calls) : calls[i].fn = fn}

\* C1: every object's rigidbody and rigidshape are both None or both set,
\* after any operation, a failing add included.
C1_HandlesBothOrNeither ==
    \A o \in ObjIds : (obj[o].rigidbody = 0) <=> (obj[o].rigidshape = 0)

\* C1 witness: an add has just failed after giving the object its id, and
\* the object holds neither handle.
C1_Witness ==
    /\ last.op = "add" /\ last.outcome = "RuntimeError"
    /\ obj[last.o].rigidbody = 0 /\ obj[last.o].rigidshape = 0
    /\ obj[last.o].id > 0

\* C2: the n-th add of a collection since its last clear assigns id n, so
\* the ids are strictly increasing, and distinct objects added since then
\* hold distinct ids whatever was removed or popped in between.
C2_IdsCountAdds ==
    \A c \in Colls :
        /\ \A n \in 1..Len(issued[c]) : issued[c][n].id = n
        /\ \A n, m \in 1..Len(issued[c]) :
              issued[c][n].o # issued[c][m].o => obj[issued[c][n].o].id # obj[issued[c][m].o].id

\* C2 witness: the third add since the last clear, every add of which
\* succeeded, with an object removed in between.
C2_Witness ==
    /\ last.op = "add" /\ last.c = "A" /\ last.outcome = "ok"
    /\ Len(issued["A"]) = 3
    /\ \A n \in 1..3 : obj[issued["A"][n].o].shape_type \in {1, 2}
    /\ obj[last.o].id = 3
    /\ Len(coll["A"].data) <= 2

\* C3: an update steps the physics exactly once, with the dt of the
\* collection's scene, before the update of any live object.
C3_StepOnceFirst ==
    last.op = "update" =>
        /\ CallsOf("space.step") = {1}
        /\ calls[1].arg = <<scene_dt[coll[last.c].scene], 0>>

\* C3 witness: an update of a collection of scene S2, whose dt differs from
\* that of S1, with a live object updated after the step.
C3_Witness ==
    /\ last.op = "update"
    /\ coll[last.c].scene = "S2"
    /\ scene_dt["S2"] = 2 /\ scene_dt["S1"] = 1
    /\ CallsOf("image.move_at") # {}

Occurrences(s, x) == Cardinality({i \in 1..Len(s) : s[i] = x})

\* C4: on every update, each script attached to a live object has its
\* update(object, dt) hook run once per update of that object, after the
\* physics step and before the object's image is resynced.
C4_ScriptsRunOnUpdate ==
    last.op = "update" =>
        \A o \in ObjIds : \A k \in 1..Len(obj[o].scripts) :
            LET dt == scene_dt[coll[last.c].scene]
                hooks == {j \in CallsOf("script.update") :
                             calls[j].who = o /\ calls[j].arg = <<obj[o].scripts[k], dt>>}
            IN  /\ Cardinality(hooks) = Occurrences(coll[last.c].data, o)
                /\ \A j \in hooks :
                      /\ j > 1
                      /\ \E m \in CallsOf("image.move_at") : m > j /\ calls[m].who = o

\* C5: once toggle_hitbox has set the flag of a collection, its draw issues
\* one hitbox outline per visible live object when the flag is on and none
\* when it is off.
C5_ToggleDecidesHitboxDraws ==
    (last.op = "draw" /\ coll[last.c].show_hitbox # "unset") =>
        LET data == coll[last.c].data
            visible == {i \in 1..Len(data) : ~obj[data[i]].invisible}
        IN  Cardinality(CallsOf("draw_shape")) =
                IF self_show_hitbox(coll[last.c]) THEN Cardinality(visible) ELSE 0

\* C6: a clear empties the live sequence, and the first add after it
\* assigns id 1.
C6_ClearRestartsIds ==
    /\ last.op = "clear" => coll[last.c].data = <<>>
    /\ (last.op = "add" /\ Len(issued[last.c]) = 1) => obj[last.o].id = 1

\* C6 witness: the first add after a clear that followed two adds (another
\* object still holds id 2 from before the clear).
C6_Witness ==
    /\ last.op = "add" /\ last.outcome = "ok"
    /\ Len(issued[last.c]) = 1
    /\ obj[last.o].id = 1
    /\ \E p \in ObjIds : p # last.o /\ obj[p].id = 2 /\ obj[p].Manager = last.c

\* C7: every object in the live sequence of a collection has that
\* collection as its Manager.
C7_ManagerIsOwner ==
    \A c \in built : \A i \in 1..Len(coll[c].data) : obj[coll[c].data[i]].Manager = c

\* C8: an add whose physics registration fails leaves the live sequence as
\* it was, and no object in a live sequence lacks its physics handles.
C8_FailedAddNotAppended ==
    /\ [](\A c \in built : \A i \in 1..Len(coll[c].data) :
            obj[coll[c].data[i]].rigidbody # 0 /\ obj[coll[c].data[i]].rigidshape # 0)
    /\ [][(last'.op = "add" /\ last'.outcome # "ok")
            => coll'[last'.c].data = coll[last'.c].data]_vars

\* C8 witness: an add has failed on a collection that holds a live object.
C8_Witness ==
    /\ last.op = "add" /\ last.outcome = "RuntimeError"
    /\ Len(coll[last.c].data) >= 1
    /\ ~InSeq(coll[last.c].data, last.o)

\* C9: registering an object whose shape kind is neither 1 nor 2 ends in a
\* raised error, never in a normal return.
C9_UnknownShapeRaises ==
    (last.op = "add" /\ obj[last.o].shape_type \notin {1, 2}) =>
        /\ last.outcome = "RuntimeError"
        /\ obj[last.o].rigidbody = 0

\* C9 witness: an add of an object of shape kind 3 has ended.
C9_Witness ==
    /\ last.op = "add"
    /\ obj[last.o].shape_type = 3
    /\ last.outcome = "RuntimeError"

\* C10: a collection is built with the scene of the innermost caller frame
\* whose self is a Scene; with no such frame the construction raises and no
\* collection results, so no collection has a null scene.
C10_NearestSceneOrError ==
    /\ \A c \in built : coll[c].scene \in Scenes
    /\ last.op = "Objects" =>
          LET hits == {i \in 1..Len(last.stack) : last.stack[i] \in Scenes}
          IN  IF hits = {}
              THEN last.outcome = "RuntimeError" /\ last.c \notin built
              ELSE /\ last.outcome = "ok" /\ last.c \in built
                   /\ \E i \in hits : /\ \A j \in hits : i <= j
                                      /\ coll[last.c].scene = last.stack[i]

\* C10 witness: a collection built under two scene frames took the inner one.
C10_Witness ==
    /\ last.op = "Objects" /\ last.outcome = "ok"
    /\ last.stack = <<"S2", "S1">>
    /\ coll[last.c].scene = "S2"

\* C11: for a registered object, move_at(p) followed immediately by the
\* position query gives p minus the anchor correction of the shape kind:
\* (x - w/2, y - h/2) for a rectangle of size (w, h), (x, y) for a circle.
C11_PositionAfterMoveAt ==
    (last.op = "move_at" /\ last.outcome = "ok") =>
        LET f == obj[last.o]
            p == last.arg
        IN  position(f, body) =
                IF f.shape_type = 1
                THEN <<p[1] - Half(f.size[1]), p[2] - Half(f.size[2])>>
                ELSE p

\* C11 witness: a registered rectangle has just been moved to a point other
\* than the one its body was created at.
C11_Witness ==
    /\ last.op = "move_at" /\ last.outcome = "ok"
    /\ obj[last.o].shape_type = 1
    /\ obj[last.o].size = <<8, 12>>
    /\ last.arg # obj[last.o].pos
    /\ position(obj[last.o], body) = <<last.arg[1] - 4, last.arg[2] - 6>>

Who(cs) == [i \in 1..Len(cs) |-> cs[i].who]

RECURSIVE Follows(_, _)
\* the calls made for ws go through the entries of d in order, any number
\* of calls per entry
Follows(ws, d) ==
    IF ws = <<>> THEN TRUE
    ELSE IF d = <<>> THEN FALSE
    ELSE IF Head(ws) = Head(d) THEN Follows(Tail(ws), d)
    ELSE Follows(ws, Tail(d))

RECURSIVE IsSubseq(_, _)
\* s is t with some elements left out
IsSubseq(s, t) ==
    IF s = <<>> THEN TRUE
    ELSE IF t = <<>> THEN FALSE
    ELSE IF Head(s) = Head(t) THEN IsSubseq(Tail(s), Tail(t))
    ELSE IsSubseq(s, Tail(t))

\* C12: a draw issues the draw calls of the live objects in insertion
\* order: the images drawn are those of the visible entries of the live
\* sequence in its order, every call made for an entry precedes the calls
\* made for the entries after it, and the live sequence is the objects
\* added since the last clear, in the order of their adds, with the
\* removed ones left out.
C12_DrawInInsertionOrder ==
    last.op = "draw" =>
        LET data == coll[last.c].data
            IsImage(k) == k.fn = "draw_image"
            IsVisible(o) == ~obj[o].invisible
        IN  /\ Who(SelectSeq(calls, IsImage)) = SelectSeq(data, IsVisible)
            /\ Follows(Who(calls), data)
            /\ IsSubseq(data, [n \in 1..Len(issued[last.c]) |-> issued[last.c][n].o])

\* C12 witness: objects 1, 2, 1 were added and the first entry removed; the
\* draw, with the outlines on, made the calls of object 2 before those of
\* object 1.
C12_Witness ==
    /\ last.op = "draw" /\ Objects_show_hitbox
    /\ Len(issued[last.c]) = 3
    /\ coll[last.c].data = <<2, 1>>
    /\ Who(calls) = <<2, 2, 1, 1>>

C14_StaticFixedOnceRegistered ==
    \A o \in ObjIds :
        obj[o].rigidbody # 0 =>
            (obj[o].static <=> body[obj[o].rigidbody].body_type = "STATIC")

\* C15: an object constructed with the caller's position pos is centred on
\* pos: straight after a successful add the centre of its body is pos,
\* for a rectangle and for a circle.
C15_BodyCentredOnPos ==
    (last.op = "add" /\ last.outcome = "ok") =>
        body[obj[last.o].rigidbody].position = obj[last.o].pos

\* C16: total is the number of objects of the collection: after any adds,
\* removes, pops and clears it equals the length of the live sequence.
C16_TotalCountsLiveObjects ==
    \A c \in built : total(coll[c]) = Len(coll[c].data)

\* C17: a successful remove returns the object it removed, as a successful
\* pop returns the object that was at the index.
C17_RemoveReturnsObject ==
    /\ (last.op = "remove" /\ last.outcome = "ok") => last.ret = last.o
    /\ (last.op = "pop" /\ last.outcome = "ok") => last.ret \in made

\* C18: remove and pop change only the live sequence: every field of every
\* object (rigidbody, rigidshape, id and Manager among them), every body
\* and every other field of the collection, its physics space with all
\* that is registered in it included, stay as they were; so no step other
\* than a clear takes a body or a shape out of a space.
C18_RemovalKeepsPhysics ==
    [][/\ last'.op \in {"remove", "pop"} =>
             /\ obj' = obj
             /\ body' = body
             /\ \A c \in Colls : coll'[c] = [coll[c] EXCEPT !.data = coll'[c].data]
       /\ (last'.op \in {"remove", "pop"} /\ last'.outcome = "ok") =>
             /\ Len(coll'[last'.c].data) = Len(coll[last'.c].data) - 1
             /\ coll'[last'.c].Physics = coll[last'.c].Physics
       /\ last'.op # "clear" =>
             \A c \in Colls :
                 /\ coll[c].Physics.space.bodies \subseteq coll'[c].Physics.space.bodies
                 /\ coll[c].Physics.space.shapes \subseteq coll'[c].Physics.space.shapes
                 /\ Cardinality(coll[c].Physics.space.bodies)
                        <= Cardinality(coll'[c].Physics.space.bodies)
      ]_vars

\* C18 witness: an object has just been removed from the live sequence and
\* still holds its id, its collection and its body, which is in the space.
C18_Witness ==
    /\ last.op = "remove" /\ last.outcome = "ok"
    /\ ~InSeq(coll[last.c].data, last.o)
    /\ obj[last.o].id > 0 /\ obj[last.o].Manager = last.c
    /\ obj[last.o].rigidbody \in coll[last.c].Physics.space.bodies
    /\ obj[last.o].rigidshape \in coll[last.c].Physics.space.shapes

\* C19: clear replaces the physics manager by a fresh one: straight after
\* a clear the space of the collection holds no body and no shape, those
\* created before the clear included, and its gravity is the default,
\* whatever adds and set_gravity calls came before.
C19_ClearGivesFreshPhysics ==
    last.op = "clear" =>
        LET space == coll[last.c].Physics.space
        IN  /\ space.bodies = {} /\ space.shapes = {}
            /\ space.gravity = <<0, 0>>
            /\ \A o \in ObjIds : obj[o].rigidbody # 0 =>
                  /\ obj[o].rigidbody \notin space.bodies
                  /\ obj[o].rigidshape \notin space.shapes

\* C19 witness: a clear of the collection of an object that still holds
\* the body an add of that collection created for it.
C19_Witness ==
    /\ last.op = "clear"
    /\ obj[1].Manager = last.c
    /\ obj[1].rigidbody # 0 /\ body[obj[1].rigidbody].alive
    /\ obj[1].rigidbody \notin coll[last.c].Physics.space.bodies

\* the physics space of a collection with the state of the bodies in it
SpaceState(c) ==
    [space |-> coll[c].Physics.space,
     bodies |-> [h \in coll[c].Physics.space.bodies |-> body[h]]]

\* C20 as stated: the physics space is changed only by PhysicsManager.add
\* (through Objects.add), PhysicsManager.update (through Objects.update)
\* and Object.move_at (also through move), and the live sequence only by
\* add, remove, pop and clear; every other operation leaves them unchanged.
C20_OnlyListedOpsWrite ==
    [][/\ last'.op \notin {"add", "update", "move_at", "move"} =>
             \A c \in Colls : SpaceState(c)' = SpaceState(c)
       /\ last'.op \notin {"add", "remove", "pop", "clear"} =>
             \A c \in Colls : coll'[c].data = coll[c].data
      ]_vars

\* C20 amended: the physics space is changed only by PhysicsManager.add,
\* PhysicsManager.update, Object.move_at (also through move),
\* Objects.set_gravity, which writes its gravity, and Objects.clear, which
\* replaces it, and the live sequence only by add, remove, pop and clear;
\* every other operation (draw, toggle_hitbox, and remove and pop for the
\* space; update, draw, set_gravity, move and move_at for the sequence)
\* leaves them unchanged.
C20_OnlyWritersWrite ==
    [][/\ last'.op \notin {"add", "update", "move_at", "move", "set_gravity", "clear"} =>
             \A c \in Colls : SpaceState(c)' = SpaceState(c)
       /\ last'.op \notin {"add", "remove", "pop", "clear"} =>
             \A c \in Colls : coll'[c].data = coll[c].data
      ]_vars

\* C20 witness: a draw that made a draw call, on a collection whose space
\* holds a body moved from where it was created and a gravity that was set.
C20_Witness ==
    /\ last.op = "draw" /\ calls # <<>>
    /\ coll[last.c].Physics.space.gravity # <<0, 0>>
    /\ \E h \in coll[last.c].Physics.space.bodies :
          h = obj[1].rigidbody /\ body[h].position \in MoveTargets

\* C21: move_at writes the new position onto the body, reindexes that
\* body's shapes on every call, and reindexes the static geometry if and
\* only if the object is static, that is, its body was created as a static
\* body; move(delta) does what move_at(body position + delta) does.
C21_MoveAtReindexes ==
    [][(last'.op \in {"move_at", "move"} /\ last'.outcome = "ok") =>
          LET o == last'.o
              h == obj[o].rigidbody
              at == body[h].position
              target == IF last'.op = "move_at" THEN last'.arg
                        ELSE <<at[1] + last'.arg[1], at[2] + last'.arg[2]>>
          IN  /\ body'[h].position = target
              /\ calls' = <<Call("reindex_shapes_for_body", o, <<h, 0>>)>> \o
                          (IF body[h].body_type = "STATIC"
                           THEN <<Call("reindex_static", o, <<0, 0>>)>> ELSE <<>>)
      ]_vars

\* C22: an add that fails during the physics registration leaves the
\* collection and the object as they were before the call: the id counter
\* is not advanced, and the object's id and Manager are unchanged.
C22_FailedAddChangesNothing ==
    [][(last'.op = "add" /\ last'.outcome # "ok") =>
          /\ coll' = coll
          /\ obj' = obj
      ]_vars

\* C23: an update leaves the image of every live object whose body has not
\* moved since it was registered at the spawn anchor the constructor put
\* it at, for rectangles and for circles.
C23_UpdateKeepsImageAtSpawn ==
    last.op = "update" =>
        \A i \in 1..Len(coll[last.c].data) :
            LET f == obj[coll[last.c].data[i]]
            IN  body[f.rigidbody].position =
                    (IF f.shape_type = 1
                     THEN <<f.spawn[1] + Half(f.size[1]), f.spawn[2] + Half(f.size[2])>>
                     ELSE f.spawn)
                => f.image = f.spawn

====
